---------------------------- MODULE Spec2Model ----------------------------
(***************************************************************************)
(* A model of tools/maint/gen_sig_info.py: the symbol filter, the          *)
(* signature reconciler, the per-preset extraction pipeline of main(), and *)
(* the three file passes (write_sig_library, update_sigs, remove_sigs).    *)
(*                                                                         *)
(* Text is modelled as a sequence of characters, each character a          *)
(* one-character string, so that startswith / endswith / strip /           *)
(* splitlines / re.sub are computed position by position as Python does.   *)
(***************************************************************************)
EXTENDS Integers, Sequences, FiniteSets, TLC

VARIABLES
  call,        \* the pure function under call and its arguments
  ret,         \* its result, "pending" before the call
  pc,          \* where main() stands
  preset,      \* index of the extract_sig_info call of main() under way
  args,        \* the parsed command line: output, update, remove
  sig_info,    \* the dict main() threads through every extract_sig_info call
  symbols,     \* extract_sig_info: the filtered symbol list
  objs,        \* the object files in the working directory, by path
  sig_info32,  \* extract_sig_info: what extract_sigs read after the first build
  sig_info64,  \* extract_sig_info: what extract_sigs read after the second build
  fs,          \* the source tree and the output file
  run,         \* which invocation of the tool this is
  steps,       \* history: the builds and reads of the preset under way, in order
  read32,      \* history: <<preset, width>> of the object file sig_info32 came from
  read64,      \* history: <<preset, width>> of the object file sig_info64 came from
  fatal,       \* history: the exception that was raised, "" when none
  written,     \* history: the text write_sig_library wrote in this invocation
  hist         \* history: the update and remove passes, with fs before and after

fnvars == <<call, ret>>
mainvars == <<pc, preset, args, sig_info, symbols, objs, sig_info32, sig_info64,
              fs, run, steps, read32, read64, fatal, written, hist>>
vars == <<call, ret, pc, preset, args, sig_info, symbols, objs, sig_info32,
          sig_info64, fs, run, steps, read32, read64, fatal, written, hist>>

-----------------------------------------------------------------------------
(* Text helpers: Python str operations on character sequences.             *)

\* s.startswith(p)
StartsWith(s, p) ==
  /\ Len(p) <= Len(s)
  /\ SubSeq(s, 1, Len(p)) = p

\* s.endswith(p)
EndsWith(s, p) ==
  /\ Len(p) <= Len(s)
  /\ SubSeq(s, Len(s) - Len(p) + 1, Len(s)) = p

\* p occurs in s at (1-based) position i
OccursAt(s, p, i) ==
  /\ i >= 1
  /\ i + Len(p) - 1 <= Len(s)
  /\ SubSeq(s, i, i + Len(p) - 1) = p

\* p in s
Contains(s, p) == \E i \in 1..(Len(s) + 1) : OccursAt(s, p, i)

\* the result of a raised exception (AssertionError, KeyError, a failed
\* check_call): no value is produced
Fail == "AssertionError"
\* the same, where the value would have been a string of characters
FailStr == <<"AssertionError">>

-----------------------------------------------------------------------------
(* webassembly.Type value types and function types.                        *)

I32 == "I32"
I64 == "I64"
F32 == "F32"
F64 == "F64"
ValueTypes == {I32, I64, F32, F64}

FuncType(returns, params) == [returns |-> returns, params |-> params]

\* the tag dictionary of valuetype_to_chr
TypeTag(t) ==
  CASE t = I32 -> "i"
    [] t = I64 -> "j"
    [] t = F32 -> "f"
    [] t = F64 -> "d"

\* a reconciler whose pointer test ignores the narrow type
valuetype_to_chr_wide_only(t, t64) ==
  IF t64 = I64 THEN "p"
  ELSE IF t # t64 THEN Fail
  ELSE TypeTag(t)

valuetype_to_chr(t, t64) ==
  IF t = I32 /\ t64 = I64 THEN "p"
  ELSE IF t # t64 THEN Fail
  ELSE TypeTag(t)

\* the zip loop of functype_to_str over the parameter slots; a failing slot
\* raises and no string is produced
RECURSIVE ParamTags(_, _, _)
ParamTags(ps, ps64, acc) ==
  IF ps = <<>> \/ ps64 = <<>> THEN acc
  ELSE LET c == valuetype_to_chr(Head(ps), Head(ps64))
       IN  IF c = Fail THEN FailStr
           ELSE ParamTags(Tail(ps), Tail(ps64), Append(acc, c))

functype_to_str(t, t64) ==
  IF Len(t.returns) # Len(t64.returns) THEN FailStr
  ELSE IF Len(t.params) # Len(t64.params) THEN FailStr
  ELSE IF t.returns # <<>> /\ Len(t.returns) # 1 THEN FailStr
  ELSE LET rtn == IF t.returns # <<>>
                  THEN valuetype_to_chr(t.returns[1], t64.returns[1])
                  ELSE "v"
       IN  IF rtn = Fail THEN FailStr
           ELSE ParamTags(t.params, t64.params, <<rtn>>)

-----------------------------------------------------------------------------
(* The symbol filter.                                                      *)

ExcludedSDL == {
      <<"S", "D", "L", "_", "G", "e", "t", "K", "e", "y", "S", "t", "a", "t", "e">> }

ExcludedReserved == {
      <<"_", "_", "s", "t", "a", "c", "k", "_", "b", "a", "s", "e">>,
      <<"_", "_", "m", "e", "m", "o", "r", "y", "_", "b", "a", "s", "e">>,
      <<"_", "_", "t", "a", "b", "l", "e", "_", "b", "a", "s", "e">>,
      <<"_", "_", "g", "l", "o", "b", "a", "l", "_", "b", "a", "s", "e">>,
      <<"_", "_", "h", "e", "a", "p", "_", "b", "a", "s", "e">>,
      <<"_", "_", "s", "t", "a", "c", "k", "_", "p", "o", "i", "n", "t", "e", "r">>,
      <<"_", "_", "s", "t", "a", "c", "k", "_", "h", "i", "g", "h">>,
      <<"_", "_", "s", "t", "a", "c", "k", "_", "l", "o", "w">>,
      <<"_", "l", "o", "a", "d", "_", "s", "e", "c", "o", "n", "d", "a", "r", "y", "_", "m", "o", "d", "u", "l", "e">>,
      <<"_", "_", "a", "s", "y", "n", "c", "i", "f", "y", "_", "s", "t", "a", "t", "e">>,
      <<"_", "_", "a", "s", "y", "n", "c", "i", "f", "y", "_", "d", "a", "t", "a">>,
      <<"s", "t", "a", "c", "k", "S", "a", "v", "e">>,
      <<"s", "t", "a", "c", "k", "R", "e", "s", "t", "o", "r", "e">>,
      <<"s", "t", "a", "c", "k", "A", "l", "l", "o", "c">>,
      <<"g", "e", "t", "T", "e", "m", "p", "R", "e", "t", "0">>,
      <<"s", "e", "t", "T", "e", "m", "p", "R", "e", "t", "0">> }

Sigil == <<"$">>
EmscriptenGl == <<"e", "m", "s", "c", "r", "i", "p", "t", "e", "n", "_", "g", "l">>
EmscriptenAlc == <<"e", "m", "s", "c", "r", "i", "p", "t", "e", "n", "_", "a", "l", "c">>
Gl == <<"g", "l">>
ExtensionSuffixes == {
      <<"N", "V">>,
      <<"E", "X", "T">>,
      <<"W", "E", "B", "G", "L">>,
      <<"A", "R", "B">>,
      <<"A", "N", "G", "L", "E">> }
AsctimeR == <<"_", "_", "a", "s", "c", "t", "i", "m", "e", "_", "r">>
CxaFindMatchingCatch ==
      <<"_", "_", "c", "x", "a", "_", "f", "i", "n", "d", "_", "m", "a", "t", "c", "h", "i", "n", "g", "_", "c", "a", "t", "c", "h">>

\* a filter whose last line groups the other way: cxx and (a or b)
ignore_symbol_cxx_guards_both(s, cxx) ==
  IF StartsWith(s, Sigil) THEN TRUE
  ELSE IF s \in ExcludedSDL THEN TRUE
  ELSE IF StartsWith(s, EmscriptenGl) \/ StartsWith(s, EmscriptenAlc) THEN TRUE
  ELSE IF StartsWith(s, Gl) /\ \E x \in ExtensionSuffixes : EndsWith(s, x) THEN TRUE
  ELSE IF s \in ExcludedReserved THEN TRUE
  ELSE cxx /\ (s = AsctimeR \/ StartsWith(s, CxaFindMatchingCatch))

\* Python's `a and b or c` is `(a and b) or c`
ignore_symbol(s, cxx) ==
  IF StartsWith(s, Sigil) THEN TRUE
  ELSE IF s \in ExcludedSDL THEN TRUE
  ELSE IF StartsWith(s, EmscriptenGl) \/ StartsWith(s, EmscriptenAlc) THEN TRUE
  ELSE IF StartsWith(s, Gl) /\ \E x \in ExtensionSuffixes : EndsWith(s, x) THEN TRUE
  ELSE IF s \in ExcludedReserved THEN TRUE
  ELSE (cxx /\ s = AsctimeR) \/ StartsWith(s, CxaFindMatchingCatch)

-----------------------------------------------------------------------------
(* Python text operations used by the file passes.                         *)

\* characters at which str.splitlines() breaks a line (those of its list
\* that the model's texts use)
LineBreaks == {"\n", "\r", "\f"}
\* characters str.strip() removes
Whitespace == {" ", "\t"} \cup LineBreaks
\* the regex class \w
WordChars ==
  {"a", "b", "c", "d", "e", "f", "g", "h", "i", "j", "k", "l", "m",
   "n", "o", "p", "q", "r", "s", "t", "u", "v", "w", "x", "y", "z",
   "A", "B", "C", "D", "E", "F", "G", "H", "I", "J", "K", "L", "M",
   "N", "O", "P", "Q", "R", "S", "T", "U", "V", "W", "X", "Y", "Z",
   "0", "1", "2", "3", "4", "5", "6", "7", "8", "9", "_"}
Quote == "'"

\* s[i:] (1-based, inclusive)
From(s, i) == SubSeq(s, i, Len(s))

RECURSIVE LStrip(_)
LStrip(s) ==
  IF s # <<>> /\ Head(s) \in Whitespace THEN LStrip(Tail(s)) ELSE s

RECURSIVE RStrip(_)
RStrip(s) ==
  IF s # <<>> /\ s[Len(s)] \in Whitespace THEN RStrip(SubSeq(s, 1, Len(s) - 1)) ELSE s

\* l.strip()
Strip(s) == RStrip(LStrip(s))

\* index of the first line break of s, 0 when it has none
FirstBreak(s) ==
  IF \E i \in 1..Len(s) : s[i] \in LineBreaks
  THEN CHOOSE i \in 1..Len(s) :
         /\ s[i] \in LineBreaks
         /\ \A k \in 1..(i - 1) : s[k] \notin LineBreaks
  ELSE 0

\* length of the line terminator that starts at i: "\r\n" is one terminator
BreakLen(s, i) ==
  IF s[i] = "\r" /\ i < Len(s) /\ s[i + 1] = "\n" THEN 2 ELSE 1

\* text.splitlines(keepends=True), each line as [text, term]
RECURSIVE RawLines(_)
RawLines(s) ==
  IF s = <<>> THEN <<>>
  ELSE LET i == FirstBreak(s)
       IN  IF i = 0 THEN << [text |-> s, term |-> <<>>] >>
           ELSE LET n == BreakLen(s, i)
                IN  << [text |-> SubSeq(s, 1, i - 1), term |-> SubSeq(s, i, i + n - 1)] >>
                      \o RawLines(From(s, i + n))

\* text.splitlines()
splitlines(s) == [k \in 1..Len(RawLines(s)) |-> RawLines(s)[k].text]

\* '\n'.join(lines)
RECURSIVE join(_)
join(lines) ==
  IF lines = <<>> THEN <<>>
  ELSE IF Len(lines) = 1 THEN lines[1]
  ELSE lines[1] \o <<"\n">> \o join(Tail(lines))

SigAttr == <<"_", "_", "s", "i", "g">>
SigColon == <<"_", "_", "s", "i", "g", ":">>
SigColonSpaceQuote == <<"_", "_", "s", "i", "g", ":", " ", "'">>

IsWordAt(l, i) == i >= 1 /\ i <= Len(l) /\ l[i] \in WordChars
\* the regex assertion \b before position i
WordBoundary(l, i) == IsWordAt(l, i - 1) # IsWordAt(l, i)

\* index of the last quote of l, 0 when it has none
LastQuote(l) ==
  IF \E j \in 1..Len(l) : l[j] = Quote
  THEN CHOOSE j \in 1..Len(l) :
         /\ l[j] = Quote
         /\ \A k \in (j + 1)..Len(l) : l[k] # Quote
  ELSE 0

\* the pattern \b{sym}__sig: '.*' matches at i: the literal part, then the
\* greedy .* runs to the last quote of the line ('.' matches every character
\* of a line)
MatchesAt(sym, l, i) ==
  /\ WordBoundary(l, i)
  /\ OccursAt(l, sym \o SigColonSpaceQuote, i)
  /\ LastQuote(l) > i + Len(sym) + Len(SigColonSpaceQuote) - 1

\* start of the leftmost match at or after from, 0 when there is none
NextMatch(sym, l, from) ==
  IF \E i \in from..Len(l) : MatchesAt(sym, l, i)
  THEN CHOOSE i \in from..Len(l) :
         /\ MatchesAt(sym, l, i)
         /\ \A k \in from..(i - 1) : ~MatchesAt(sym, l, k)
  ELSE 0

\* re.sub(rf"\b{sym}__sig: '.*'", f"{sym}__sig: '{sig}'", l), scanning from
\* position from: every non-overlapping match, left to right, is replaced
RECURSIVE re_sub(_, _, _, _)
re_sub(sym, sig, l, from) ==
  LET i == NextMatch(sym, l, from)
  IN  IF i = 0 THEN From(l, from)
      ELSE SubSeq(l, from, i - 1)
             \o sym \o SigColonSpaceQuote \o sig \o <<Quote>>
             \o re_sub(sym, sig, l, LastQuote(l) + 1)

-----------------------------------------------------------------------------
(* sig_info: a Python dict, kept as the sequence of its items in insertion *)
(* order.                                                                  *)

Item(sym, sig) == [sym |-> sym, sig |-> sig]
Keys(info) == {info[k].sym : k \in 1..Len(info)}
\* sym in sig_info
Has(info, sym) == sym \in Keys(info)
\* sig_info[sym]
Get(info, sym) == (CHOOSE k \in 1..Len(info) : info[k].sym = sym)
GetSig(info, sym) == info[Get(info, sym)].sig
\* sig_info[sym] = sig
Set(info, sym, sig) ==
  IF Has(info, sym) THEN [info EXCEPT ![Get(info, sym)].sig = sig]
  ELSE Append(info, Item(sym, sig))

\* code point order of the characters symbol names use
Collation ==
  <<"$", "0", "1", "2", "3", "4", "5", "6", "7", "8", "9",
    "A", "B", "C", "D", "E", "F", "G", "H", "I", "J", "K", "L", "M",
    "N", "O", "P", "Q", "R", "S", "T", "U", "V", "W", "X", "Y", "Z",
    "_",
    "a", "b", "c", "d", "e", "f", "g", "h", "i", "j", "k", "l", "m",
    "n", "o", "p", "q", "r", "s", "t", "u", "v", "w", "x", "y", "z">>
Ord(c) == CHOOSE k \in 1..Len(Collation) : Collation[k] = c

\* a < b for Python strings
RECURSIVE StrLess(_, _)
StrLess(a, b) ==
  IF b = <<>> THEN FALSE
  ELSE IF a = <<>> THEN TRUE
  ELSE IF Head(a) = Head(b) THEN StrLess(Tail(a), Tail(b))
  ELSE Ord(Head(a)) < Ord(Head(b))

\* sorted(sig_info.items()): the keys are unique, so the symbol decides
RECURSIVE sorted(_)
sorted(info) ==
  IF info = <<>> THEN <<>>
  ELSE LET m == CHOOSE k \in 1..Len(info) :
                  \A j \in 1..Len(info) : j = k \/ StrLess(info[k].sym, info[j].sym)
           rest == [j \in 1..(Len(info) - 1) |-> IF j < m THEN info[j] ELSE info[j + 1]]
       IN  <<info[m]>> \o sorted(rest)

-----------------------------------------------------------------------------
(* The file system and the three passes of the declaration synchronizer.   *)
(* A file system is a function from the paths of the existing files to     *)
(* their text.                                                             *)

Path(dir, stem, ext) == [dir |-> dir, stem |-> stem, ext |-> ext]
\* os.path.basename(file)
basename(p) == <<p.stem, p.ext>>

\* utils.read_file(file) and utils.write_file(file, text) as the passes call
\* them: the text of the file is handed over, and stored, as it is
read_file(tree, p) == tree[p]
write_file(tree, p, text) == [q \in DOMAIN tree \cup {p} |-> IF q = p THEN text ELSE tree[q]]

\* glob.glob('src/*.js'): the .js files directly in src
GlobTop(tree) ==
  {p \in DOMAIN tree : p.ext = "js" /\ Len(p.dir) = 1 /\ p.dir[1] = "src"}
\* glob.glob('src/**/*.js'), called without recursive=True: '**' is then an
\* ordinary '*' and stands for exactly one directory
GlobNested(tree) ==
  {p \in DOMAIN tree : p.ext = "js" /\ Len(p.dir) = 2 /\ p.dir[1] = "src"}
\* files = glob.glob('src/*.js') + glob.glob('src/**/*.js')
GlobFiles(tree) == GlobTop(tree) \cup GlobNested(tree)

\* the fixed lines of the generated file; none holds a quote, "__sig" or
\* white space at its ends, and each is kept as one opaque character (the
\* back quotes around allowMissing are left out)
BannerLine == << "/* Auto-generated by tools/gen_sig_info.py. DO NOT EDIT. */" >>
OpenLine == << "sigs = {" >>
CloseLine == << "}" >>
NoteLine1 == << "// We have to merge with allowMissing since this file contains signatures" >>
NoteLine2 == << "// for functions that might not exist in all build configurations." >>
RegisterLine == << "addToLibrary(sigs, {allowMissing: true});" >>

\* f"  {s}__sig: '{sig}',"
EntryLine(item) ==
  <<" ", " ">> \o item.sym \o SigColonSpaceQuote \o item.sig \o <<Quote, ",">>

\* the text write_sig_library writes
SigLibraryText(info) ==
  LET items == sorted(info)
      lines == <<BannerLine, <<>>, OpenLine>>
                 \o [k \in 1..Len(items) |-> EntryLine(items[k])]
                 \o <<CloseLine, <<>>, NoteLine1, NoteLine2, RegisterLine>>
  IN  join(lines) \o <<"\n">>

write_sig_library(tree, filename, info) == write_file(tree, filename, SigLibraryText(info))

\* index of the first item of sig_info whose '<sym>__sig:' starts the trimmed
\* line, 0 when there is none
FirstItem(info, stripped) ==
  IF \E k \in 1..Len(info) : StartsWith(stripped, info[k].sym \o SigColon)
  THEN CHOOSE k \in 1..Len(info) :
         /\ StartsWith(stripped, info[k].sym \o SigColon)
         /\ \A j \in 1..(k - 1) : ~StartsWith(stripped, info[j].sym \o SigColon)
  ELSE 0

\* an update that appends the signature to the old one instead of replacing it
update_line_appends(info, l) ==
  IF ~Contains(l, SigAttr) THEN l
  ELSE LET k == FirstItem(info, Strip(l))
           q == LastQuote(l)
       IN  IF k = 0 \/ NextMatch(info[k].sym, l, 1) = 0 THEN l
           ELSE SubSeq(l, 1, q - 1) \o info[k].sig \o From(l, q)

update_line(info, l) ==
  IF ~Contains(l, SigAttr) THEN l
  ELSE LET k == FirstItem(info, Strip(l))
       IN  IF k = 0 THEN l
           ELSE re_sub(info[k].sym, info[k].sig, l, 1)

\* the body of the loop of update_sigs for one file
UpdatedText(info, text) ==
  LET lines == splitlines(text)
  IN  join([k \in 1..Len(lines) |-> update_line(info, lines[k])]) \o <<"\n">>

update_sigs(tree, info) ==
  [p \in DOMAIN tree |->
     IF p \in GlobFiles(tree) THEN UpdatedText(info, read_file(tree, p)) ELSE tree[p]]

\* strip_line: the trimmed line starts with one of to_remove
strip_line(info, l) ==
  \E sym \in Keys(info) : StartsWith(Strip(l), sym \o SigColon)

\* [l for l in lines if not strip_line(l)]
RECURSIVE KeptLines(_, _)
KeptLines(info, lines) ==
  IF lines = <<>> THEN <<>>
  ELSE IF strip_line(info, Head(lines)) THEN KeptLines(info, Tail(lines))
  ELSE <<Head(lines)>> \o KeptLines(info, Tail(lines))

\* the body of the loop of remove_sigs for one file
RemovedText(info, text) == join(KeptLines(info, splitlines(text))) \o <<"\n">>

LibSigs == <<"libsigs", "js">>

remove_sigs(tree, info) ==
  [p \in DOMAIN tree |->
     IF p \in GlobFiles(tree) /\ basename(p) # LibSigs
     THEN RemovedText(info, read_file(tree, p))
     ELSE tree[p]]

-----------------------------------------------------------------------------
(* Inputs of the pure functions.                                           *)

MaxParams == 2

RECURSIVE SeqsUpTo(_, _)
SeqsUpTo(S, n) ==
  IF n = 0 THEN {<<>>}
  ELSE LET shorter == SeqsUpTo(S, n - 1)
       IN  shorter \cup {Append(q, x) : q \in shorter, x \in S}

\* what the binary type reader can hand over: zero or one return, up to
\* MaxParams parameters
FuncTypes ==
  {FuncType(r, p) : r \in SeqsUpTo(ValueTypes, 1), p \in SeqsUpTo(ValueTypes, MaxParams)}

NamePrefixes == {
      <<>>,
      Sigil,
      EmscriptenGl,
      EmscriptenAlc,
      Gl,
      <<"e", "m", "s", "c", "r", "i", "p", "t", "e", "n", "_">>,
      CxaFindMatchingCatch,
      <<"_">> }
NameStems == {
      <<>>,
      <<"C", "l", "e", "a", "r">>,
      <<"_", "2">> }
NameSuffixes == ExtensionSuffixes \cup { <<>>, <<"O", "E", "S">> }

FilterNames ==
  {p \o m \o x : p \in NamePrefixes, m \in NameStems, x \in NameSuffixes}
    \cup ExcludedSDL \cup ExcludedReserved
    \cup { AsctimeR,
           <<"a", "s", "c", "t", "i", "m", "e", "_", "r">>,
           <<"m", "a", "l", "l", "o", "c">>,
           <<"g", "l", "T", "e", "x", "I", "m", "a", "g", "e", "2", "D", "N", "V">>,
           <<"e", "m", "s", "c", "r", "i", "p", "t", "e", "n", "_", "g", "l", "C", "l", "e", "a", "r">> }

NoType == FuncType(<<>>, <<>>)
FnCall(fn, vt, vt64, ft, ft64, s, cxx) ==
  [fn |-> fn, vt |-> vt, vt64 |-> vt64, ft |-> ft, ft64 |-> ft64, s |-> s, cxx |-> cxx]
FnRet(status, chr, str, flag) ==
  [status |-> status, chr |-> chr, str |-> str, flag |-> flag]
Pending == FnRet("pending", "", <<>>, FALSE)

FnCalls ==
  {FnCall("valuetype_to_chr", a, b, NoType, NoType, <<>>, FALSE) :
      a \in ValueTypes, b \in ValueTypes}
    \cup {FnCall("functype_to_str", "", "", a, b, <<>>, FALSE) :
      a \in FuncTypes, b \in FuncTypes}
    \cup {FnCall("ignore_symbol", "", "", NoType, NoType, n, c) :
      n \in FilterNames, c \in BOOLEAN}

-----------------------------------------------------------------------------
(* main(): the presets, then write_sig_library, update_sigs, remove_sigs.  *)

\* the cxx argument of each extract_sig_info call of main(), in order
Presets == <<TRUE, FALSE, FALSE, TRUE, FALSE, FALSE, FALSE, FALSE>>

obj_file == "out.o"
\* another path in the working directory
other_obj_file == "out64.o"

SymF == <<"f">>
SymG == <<"g">>
\* what compiler.mjs --symbols-only can list as the keys of 'deps'
DepsChoices == { <<SymF>>, <<SymG>>, <<SymF, SymG>>, <<Sigil \o SymF, SymG>> }

\* the function types the compiler can give an import in the pipeline runs:
\* void(void), void(i32), void(i64)
PipeTypes == { FuncType(<<>>, <<>>), FuncType(<<>>, <<I32>>), FuncType(<<>>, <<I64>>) }

\* [s for s in symbols if not ignore_symbol(s, cxx)]
RECURSIVE FilterSymbols(_, _)
FilterSymbols(deps, cxx) ==
  IF deps = <<>> THEN <<>>
  ELSE IF ignore_symbol(Head(deps), cxx) THEN FilterSymbols(Tail(deps), cxx)
  ELSE <<Head(deps)>> \o FilterSymbols(Tail(deps), cxx)

Range(q) == {q[k] : k \in 1..Len(q)}

Artifact(k, width, imports) == [by |-> <<k, width>>, imports |-> imports]

\* extract_sigs(symbols, obj_file): import_map[s] raises KeyError for a symbol
\* the object file does not import
extract_sigs(syms, obj) ==
  IF \E x \in Range(syms) : x \notin DOMAIN obj.imports
  THEN [ok |-> FALSE, sigs |-> <<>>]
  ELSE [ok |-> TRUE, sigs |-> [x \in Range(syms) |-> obj.imports[x]]]

MergeResult(ok, why, info) == [ok |-> ok, why |-> why, info |-> info]

\* a merge that lets the later preset win
RECURSIVE merge_overwrites(_, _, _, _)
merge_overwrites(syms, s32, s64, info) ==
  IF syms = <<>> THEN MergeResult(TRUE, "", info)
  ELSE LET sym == Head(syms)
       IN  IF sym \notin DOMAIN s64 THEN MergeResult(FALSE, "missing64", info)
           ELSE LET sig_string == functype_to_str(s32[sym], s64[sym])
                IN  IF sig_string = FailStr THEN MergeResult(FALSE, "reconcile", info)
                    ELSE merge_overwrites(Tail(syms), s32, s64, Set(info, sym, sig_string))

\* the loop at the end of extract_sig_info, over sig_info32.items() (the
\* order of symbols); an exception leaves sig_info as the loop had it
RECURSIVE merge(_, _, _, _)
merge(syms, s32, s64, info) ==
  IF syms = <<>> THEN MergeResult(TRUE, "", info)
  ELSE LET sym == Head(syms)
       IN  IF sym \notin DOMAIN s64 THEN MergeResult(FALSE, "missing64", info)
           ELSE LET sig_string == functype_to_str(s32[sym], s64[sym])
                IN  IF sig_string = FailStr THEN MergeResult(FALSE, "reconcile", info)
                    ELSE IF Has(info, sym) /\ GetSig(info, sym) # sig_string
                    THEN MergeResult(FALSE, "contradiction", info)
                    ELSE merge(Tail(syms), s32, s64, Set(info, sym, sig_string))

\* the paths of the model's tree
FileA == Path(<<"src">>, "a", "js")
FileB == Path(<<"src", "lib">>, "b", "js")
FileDeep == Path(<<"src", "x", "y">>, "c", "js")
\* the default of --output
DefaultOutput == Path(<<"src", "lib">>, "libsigs", "js")
OutputChoices ==
  { DefaultOutput,
    Path(<<"src", "lib">>, "sigs", "js"),
    Path(<<"out">>, "libsigs", "js") }

Args == [output : OutputChoices, update : BOOLEAN, remove : BOOLEAN]

\* a tree whose source files, and the libsigs.js of an earlier run, all hold text
Tree(text) == [p \in {FileA, FileB, FileDeep, DefaultOutput} |-> text]

T(line) == line \o <<"\n">>
\* "  f__sig: 'i',\nfoo();\n"
SampleText ==
  T(<<" ", " ">> \o SymF \o SigColonSpaceQuote \o <<"i", Quote, ",">>)
    \o T(<<"f", "o", "o", "(", ")", ";">>)

NoTag == <<0, 0>>
Idle == FnCall("", "", "", NoType, NoType, <<>>, FALSE)

FnIdle ==
  /\ call = Idle
  /\ ret = Pending

MainIdle ==
  /\ pc = "idle"
  /\ preset = 0
  /\ args = [output |-> DefaultOutput, update |-> FALSE, remove |-> FALSE]
  /\ sig_info = <<>>
  /\ symbols = <<>>
  /\ objs = <<>>
  /\ sig_info32 = <<>>
  /\ sig_info64 = <<>>
  /\ fs = <<>>
  /\ run = 0
  /\ steps = <<>>
  /\ read32 = NoTag
  /\ read64 = NoTag
  /\ fatal = ""
  /\ written = <<>>
  /\ hist = <<>>

\* main() after parse_args, before the first preset
Init ==
  /\ FnIdle
  /\ pc = "symbols"
  /\ preset = 1
  /\ args \in Args
  /\ sig_info = <<>>
  /\ symbols = <<>>
  /\ objs = <<>>
  /\ sig_info32 = <<>>
  /\ sig_info64 = <<>>
  /\ fs = Tree(SampleText)
  /\ run = 1
  /\ steps = <<>>
  /\ read32 = NoTag
  /\ read64 = NoTag
  /\ fatal = ""
  /\ written = <<>>
  /\ hist = <<>>

\* a failed build that is not noticed: the run goes on to read the object file
Raise_ignored(why) ==
  /\ pc' = IF pc = "compile32" THEN "read32"
           ELSE IF pc = "compile64" THEN "read64"
           ELSE IF pc = "read32" THEN "compile64"
           ELSE "write"
  /\ fatal' = why

\* an uncaught exception ends the process
Raise(why) ==
  /\ pc' = "aborted"
  /\ fatal' = why

\* extract_sig_info up to create_c_file: list the symbols, filter them
ListSymbols ==
  /\ pc = "symbols"
  /\ \E deps \in DepsChoices : symbols' = FilterSymbols(deps, Presets[preset])
  /\ pc' = "compile32"
  /\ sig_info32' = <<>>
  /\ sig_info64' = <<>>
  /\ steps' = <<>>
  /\ read32' = NoTag
  /\ read64' = NoTag
  /\ UNCHANGED <<call, ret, preset, args, sig_info, objs, fs, run, fatal, written, hist>>

\* shared.check_call(cmd): the compiler fails, or writes the object file with
\* an import for symbols of the stub
Build(path, width, next) ==
  \/ /\ Raise(pc)
     /\ UNCHANGED <<objs, steps>>
  \/ /\ \E D \in SUBSET Range(symbols) : \E m \in [D -> PipeTypes] :
          objs' = [q \in DOMAIN objs \cup {path} |->
                     IF q = path THEN Artifact(preset, width, m) ELSE objs[q]]
     /\ steps' = Append(steps, pc)
     /\ pc' = next
     /\ UNCHANGED fatal

Compile32 ==
  /\ pc = "compile32"
  /\ Build(obj_file, 32, "read32")
  /\ UNCHANGED <<call, ret, preset, args, sig_info, symbols, sig_info32, sig_info64,
                 fs, run, read32, read64, written, hist>>

\* sig_info32 = extract_sigs(symbols, obj_file)
Read32 ==
  /\ pc = "read32"
  /\ LET r == extract_sigs(symbols, objs[obj_file])
     IN  IF r.ok
         THEN /\ sig_info32' = r.sigs
              /\ read32' = objs[obj_file].by
              /\ steps' = Append(steps, pc)
              /\ pc' = "compile64"
              /\ UNCHANGED fatal
         ELSE /\ Raise("missing32")
              /\ UNCHANGED <<sig_info32, read32, steps>>
  /\ UNCHANGED <<call, ret, preset, args, sig_info, symbols, objs, sig_info64,
                 fs, run, read64, written, hist>>

\* the second build writes to a path of its own
Compile64_other_path ==
  /\ pc = "compile64"
  /\ Build(other_obj_file, 64, "read64")
  /\ UNCHANGED <<call, ret, preset, args, sig_info, symbols, sig_info32, sig_info64,
                 fs, run, read32, read64, written, hist>>

\* shared.check_call(cmd + ['-sMEMORY64', '-Wno-experimental']): same '-o'
Compile64 ==
  /\ pc = "compile64"
  /\ Build(obj_file, 64, "read64")
  /\ UNCHANGED <<call, ret, preset, args, sig_info, symbols, sig_info32, sig_info64,
                 fs, run, read32, read64, written, hist>>

\* sig_info64 = extract_sigs(symbols, obj_file)
Read64 ==
  /\ pc = "read64"
  /\ LET r == extract_sigs(symbols, objs[obj_file])
     IN  IF r.ok
         THEN /\ sig_info64' = r.sigs
              /\ read64' = objs[obj_file].by
              /\ steps' = Append(steps, pc)
              /\ pc' = "merge"
              /\ UNCHANGED fatal
         ELSE /\ Raise("missing64")
              /\ UNCHANGED <<sig_info64, read64, steps>>
  /\ UNCHANGED <<call, ret, preset, args, sig_info, symbols, objs, sig_info32,
                 fs, run, read32, written, hist>>

\* the merge loop, then the return to main(): the next preset, or the passes
Merge ==
  /\ pc = "merge"
  /\ LET r == merge(symbols, sig_info32, sig_info64, sig_info)
     IN  /\ sig_info' = r.info
         /\ IF r.ok
            THEN /\ pc' = IF preset = Len(Presets) THEN "write" ELSE "symbols"
                 /\ preset' = preset + 1
                 /\ UNCHANGED fatal
            ELSE /\ Raise(r.why)
                 /\ UNCHANGED preset
  /\ UNCHANGED <<call, ret, args, symbols, objs, sig_info32, sig_info64,
                 fs, run, steps, read32, read64, written, hist>>

\* write_sig_library(args.output, sig_info)
Write ==
  /\ pc = "write"
  /\ fs' = write_sig_library(fs, args.output, sig_info)
  /\ written' = SigLibraryText(sig_info)
  /\ pc' = "update"
  /\ UNCHANGED <<call, ret, preset, args, sig_info, symbols, objs, sig_info32,
                 sig_info64, run, steps, read32, read64, fatal, hist>>

Pass(op, before, after) == [op |-> op, run |-> run, before |-> before, after |-> after]

\* if args.update: update_sigs(sig_info)
Update ==
  /\ pc = "update"
  /\ IF args.update
     THEN /\ fs' = update_sigs(fs, sig_info)
          /\ hist' = Append(hist, Pass("update", fs, fs'))
     ELSE UNCHANGED <<fs, hist>>
  /\ pc' = "remove"
  /\ UNCHANGED <<call, ret, preset, args, sig_info, symbols, objs, sig_info32,
                 sig_info64, run, steps, read32, read64, fatal, written>>

\* if args.remove: remove_sigs(sig_info)
Remove ==
  /\ pc = "remove"
  /\ IF args.remove
     THEN /\ fs' = remove_sigs(fs, sig_info)
          /\ hist' = Append(hist, Pass("remove", fs, fs'))
     ELSE UNCHANGED <<fs, hist>>
  /\ pc' = "done"
  /\ UNCHANGED <<call, ret, preset, args, sig_info, symbols, objs, sig_info32,
                 sig_info64, run, steps, read32, read64, fatal, written>>

Next ==
  \/ ListSymbols
  \/ Compile32
  \/ Read32
  \/ Compile64
  \/ Read64
  \/ Merge
  \/ Write
  \/ Update
  \/ Remove

Spec == Init /\ [][Next]_vars

-----------------------------------------------------------------------------
(* The passes alone: main() from write_sig_library on, for any mapping and *)
(* any text in the source files, and the tool invoked again afterwards.    *)

MaxLines == 2
MaxRuns == 2

Indents == { <<>>, <<" ", " ">> }
Heads == { SymF \o SigColon, SymG \o SigColon, <<"a">> }
Gaps == { <<>>, <<" ">> }
Values == { <<Quote, "i", Quote>>, <<Quote, "i", "i", Quote>>, <<"i">> }
\* nothing; a comma; a comma and the comment "// it's"
Tails == { <<>>, <<",">>, <<",", " ", "/", "/", " ", "i", "t", Quote, "s">> }

\* one line: indentation, a head, a gap, a value, a tail
FocusLines ==
  {i \o h \o g \o v \o t : i \in Indents, h \in Heads, g \in Gaps, v \in Values, t \in Tails}
    \cup { <<"/", "/", " ">> \o SymF \o SigColonSpaceQuote \o <<"i", Quote>> }

ContextLines ==
  { <<>>,
    <<"a">>,
    SymF \o SigColonSpaceQuote \o <<"i", Quote, ",">> }
Terminators == { <<"\n">>, <<"\r", "\n">> }

\* texts of up to n lines of ContextLines, the last one with or without its
\* terminator
RECURSIVE Texts(_)
Texts(n) ==
  IF n = 0 THEN { <<>> }
  ELSE { <<>> } \cup (ContextLines \ { <<>> })
         \cup {l \o t \o rest : l \in ContextLines, t \in Terminators, rest \in Texts(n - 1)}

Contents ==
  Texts(MaxLines) \cup {l \o t : l \in FocusLines, t \in { <<>>, <<"\n">> }}

\* the mappings the passes are run with
SyncMaps ==
  { <<>>,
    << Item(SymF, <<"i", "i">>) >>,
    << Item(SymG, <<"v">>), Item(SymF, <<"i", "p">>) >> }

\* main() at write_sig_library: every preset has returned
SyncInit ==
  /\ FnIdle
  /\ pc = "write"
  /\ preset = Len(Presets) + 1
  /\ args \in Args
  /\ sig_info \in SyncMaps
  /\ symbols = <<>>
  /\ objs = <<>>
  /\ sig_info32 = <<>>
  /\ sig_info64 = <<>>
  /\ \E text \in Contents : fs = Tree(text)
  /\ run = 1
  /\ steps = <<>>
  /\ read32 = NoTag
  /\ read64 = NoTag
  /\ fatal = ""
  /\ written = <<>>
  /\ hist = <<>>

\* the tool is invoked again with the same command line; its inputs are
\* the same, and so is the mapping it arrives at
Reinvoke ==
  /\ pc = "done"
  /\ run < MaxRuns
  /\ run' = run + 1
  /\ pc' = "write"
  /\ written' = <<>>
  /\ UNCHANGED <<call, ret, preset, args, sig_info, symbols, objs, sig_info32,
                 sig_info64, fs, steps, read32, read64, fatal, hist>>

SyncNext ==
  \/ Write
  \/ Update
  \/ Remove
  \/ Reinvoke

SpecSync == SyncInit /\ [][SyncNext]_vars

-----------------------------------------------------------------------------
(* The pure functions, called on inputs drawn from bounded sets.           *)

FnInit ==
  /\ call \in FnCalls
  /\ ret = Pending
  /\ MainIdle

CallValuetypeToChr ==
  /\ ret = Pending
  /\ call.fn = "valuetype_to_chr"
  /\ LET c == valuetype_to_chr(call.vt, call.vt64)
     IN  ret' = IF c = Fail THEN FnRet("raised", Fail, <<>>, FALSE)
                ELSE FnRet("returned", c, <<>>, FALSE)
  /\ UNCHANGED <<call, mainvars>>

CallFunctypeToStr ==
  /\ ret = Pending
  /\ call.fn = "functype_to_str"
  /\ LET str == functype_to_str(call.ft, call.ft64)
     IN  ret' = IF str = FailStr THEN FnRet("raised", Fail, <<>>, FALSE)
                ELSE FnRet("returned", "", str, FALSE)
  /\ UNCHANGED <<call, mainvars>>

CallIgnoreSymbol ==
  /\ ret = Pending
  /\ call.fn = "ignore_symbol"
  /\ ret' = FnRet("returned", "", <<>>, ignore_symbol(call.s, call.cxx))
  /\ UNCHANGED <<call, mainvars>>

FnNext == CallValuetypeToChr \/ CallFunctypeToStr \/ CallIgnoreSymbol

SpecFn == FnInit /\ [][FnNext]_vars

-----------------------------------------------------------------------------
(* The claims.                                                             *)

Returned(r) == r.status = "returned"
Raised(r) == r.status = "raised"

\* C1: for every pair of value types, valuetype_to_chr gives 'p' for
\* (I32, I64), the fixed tag of the type for an equal pair (i, j, f, d), and
\* raises, giving no tag, for every other pair, (I64, I32) among them.
C1_ReconcileSlot ==
  (call.fn = "valuetype_to_chr" /\ ret # Pending) =>
     IF call.vt = I32 /\ call.vt64 = I64
     THEN Returned(ret) /\ ret.chr = "p"
     ELSE IF call.vt = call.vt64
     THEN /\ Returned(ret)
          /\ call.vt = I32 => ret.chr = "i"
          /\ call.vt = I64 => ret.chr = "j"
          /\ call.vt = F32 => ret.chr = "f"
          /\ call.vt = F64 => ret.chr = "d"
     ELSE Raised(ret)

\* C1, witness: the call with narrow I64 and wide I32 has raised.
C1_Witness ==
  /\ call.fn = "valuetype_to_chr"
  /\ call.vt = I64
  /\ call.vt64 = I32
  /\ Raised(ret)

\* the rules of the filter that do not depend on the linkage
DropsAlways(s) ==
  \/ StartsWith(s, Sigil)
  \/ s \in ExcludedSDL \cup ExcludedReserved
  \/ StartsWith(s, EmscriptenGl)
  \/ StartsWith(s, EmscriptenAlc)
  \/ (StartsWith(s, Gl) /\ \E x \in ExtensionSuffixes : EndsWith(s, x))

\* C7, as stated: a symbol is dropped exactly when a fixed rule holds or,
\* under C++ linkage only, it is '__asctime_r' or begins with
\* '__cxa_find_matching_catch'.
C7_AsStated ==
  (call.fn = "ignore_symbol" /\ Returned(ret)) =>
     (ret.flag <=>
        \/ DropsAlways(call.s)
        \/ (call.cxx /\ (call.s = AsctimeR \/ StartsWith(call.s, CxaFindMatchingCatch))))

\* C7, amended: a symbol is dropped exactly when a fixed rule holds, or it
\* begins with '__cxa_find_matching_catch' (under either linkage), or it is
\* '__asctime_r' and the linkage is C++.
C7_PrefixUnderEitherLinkage ==
  (call.fn = "ignore_symbol" /\ Returned(ret)) =>
     (ret.flag <=>
        \/ DropsAlways(call.s)
        \/ StartsWith(call.s, CxaFindMatchingCatch)
        \/ (call.cxx /\ call.s = AsctimeR))

\* C7, witness: under C linkage a name that begins with
\* '__cxa_find_matching_catch' has been dropped.
C7_Witness ==
  /\ call.fn = "ignore_symbol"
  /\ ~call.cxx
  /\ call.s = CxaFindMatchingCatch \o <<"_", "2">>
  /\ Returned(ret)
  /\ ret.flag

\* what the preset under merge yields for sym
Yields(sym) == functype_to_str(sig_info32[sym], sig_info64[sym])

\* C2: a recorded signature never changes; a merge in which every symbol
\* yields its recorded signature (or is new) succeeds and records what it
\* yields; a merge in which a symbol yields another signature than the
\* recorded one aborts.
C2_RecordedNeverChanges ==
  [][ /\ \A k \in 1..Len(sig_info) : Len(sig_info') >= k /\ sig_info'[k] = sig_info[k]
      /\ (pc = "merge" /\ \A x \in Range(symbols) : Yields(x) # FailStr) =>
            IF \E x \in Range(symbols) : Has(sig_info, x) /\ GetSig(sig_info, x) # Yields(x)
            THEN pc' = "aborted" /\ fatal' = "contradiction"
            ELSE /\ pc' # "aborted"
                 /\ \A x \in Range(symbols) : Has(sig_info', x) /\ GetSig(sig_info', x) = Yields(x)
    ]_vars

\* C2, witness: a later preset yielded another signature for a recorded
\* symbol and the run has aborted, the record standing.
C2_Witness ==
  /\ pc = "aborted"
  /\ fatal = "contradiction"
  /\ \E x \in Range(symbols) : Has(sig_info, x) /\ GetSig(sig_info, x) # Yields(x)

\* C8: once an exception is raised in a preset the process has ended: no
\* step is enabled any more, the output file and the source files are as
\* they were; and whenever write_sig_library has run, every preset has
\* returned and nothing was raised.
C8_AbortWritesNothing ==
  /\ fatal # "" =>
       /\ pc = "aborted"
       /\ ~ENABLED Next
       /\ fs = Tree(SampleText)
       /\ written = <<>>
       /\ hist = <<>>
  /\ (pc \in {"update", "remove", "done"} \/ fs # Tree(SampleText)) =>
       /\ fatal = ""
       /\ preset = Len(Presets) + 1

\* C8, witness: the second build of the third preset has failed, after
\* earlier presets recorded signatures.
C8_Witness ==
  /\ fatal = "compile64"
  /\ preset = 3
  /\ sig_info # <<>>
  /\ pc = "aborted"

BuildOrder == <<"compile32", "read32", "compile64", "read64">>

\* C10: in each preset the steps are build-narrow, read-narrow, build-wide,
\* read-wide, each once; both builds write the one path; the narrow types
\* come from the narrow object file of this preset and the wide types from
\* the wide object file of this preset.
C10_BuildReadOrder ==
  /\ Len(steps) <= Len(BuildOrder)
  /\ steps = SubSeq(BuildOrder, 1, Len(steps))
  /\ DOMAIN objs \subseteq {obj_file}
  /\ pc \in {"compile64", "read64", "merge"} => read32 = <<preset, 32>>
  /\ pc = "read64" => objs[obj_file].by = <<preset, 64>>
  /\ pc = "merge" => steps = BuildOrder /\ read64 = <<preset, 64>>

\* C10, witness: the second preset is at its merge; the object file of the
\* first preset was overwritten twice.
C10_Witness ==
  /\ pc = "merge"
  /\ preset = 2
  /\ symbols # <<>>
  /\ read64 = <<2, 64>>

\* the .js files under src, at any depth
Eligible(tree) == {p \in DOMAIN tree : p.ext = "js" /\ p.dir # <<>> /\ p.dir[1] = "src"}

\* the line is an annotation line of a mapped symbol
IsAnnotation(info, l) == \E x \in Keys(info) : StartsWith(Strip(l), x \o SigColon)

\* positions of the quotes of l after position from
QuotesAfter(l, from) == {j \in (from + 1)..Len(l) : l[j] = Quote}
Least(S) == CHOOSE x \in S : \A y \in S : x <= y

\* the line is an annotation line of a mapped symbol in the format the
\* tool writes: '<sym>__sig:', a space, the signature in quotes
IsQuotedAnnotation(info, l) ==
  \E x \in Keys(info) :
    /\ StartsWith(Strip(l), x \o SigColonSpaceQuote)
    /\ \E n \in (Len(x \o SigColonSpaceQuote) + 1)..Len(Strip(l)) : Strip(l)[n] = Quote

\* such a line with only its quoted signature replaced: the text up to the
\* opening quote, the signature, the text from the closing quote on
OnlySignatureReplaced(info, l) ==
  LET k == FirstItem(info, Strip(l))
      open == Len(l) - Len(LStrip(l)) + Len(info[k].sym \o SigColonSpaceQuote)
      close == Least(QuotesAfter(l, open))
  IN  SubSeq(l, 1, open) \o info[k].sig \o From(l, close)

\* C3: in an update pass every annotation line of a mapped symbol (in the
\* format '<sym>__sig:', a space, the signature in quotes) becomes the same
\* line with only the quoted signature replaced: what precedes the opening
\* quote and what follows the closing quote is kept, a trailing comment
\* with a quote in it included.
C3_OnlySignatureReplaced ==
  \A e \in Range(hist) : e.op = "update" =>
    \A p \in GlobFiles(e.before) :
      LET old == splitlines(e.before[p])
          new == splitlines(e.after[p])
      IN  \A k \in 1..Len(old) :
            IsQuotedAnnotation(sig_info, old[k]) =>
              /\ Len(new) >= k
              /\ new[k] = OnlySignatureReplaced(sig_info, old[k])

\* C4: after a remove pass no .js file under src, at any depth, other than
\* the output file, holds an annotation line of a mapped symbol.
C4_NoAnnotationLeft ==
  \A e \in Range(hist) : e.op = "remove" =>
    \A p \in Eligible(e.after) \ {args.output} :
      \A l \in Range(splitlines(e.after[p])) : ~IsAnnotation(sig_info, l)

\* the bytes of a text outside the annotation lines of mapped symbols:
\* every other line with its terminator
RECURSIVE OtherBytes(_, _)
OtherBytes(info, raw) ==
  IF raw = <<>> THEN <<>>
  ELSE IF IsAnnotation(info, Head(raw).text) THEN OtherBytes(info, Tail(raw))
  ELSE Head(raw).text \o Head(raw).term \o OtherBytes(info, Tail(raw))

\* C5: an update or remove pass leaves every byte outside the annotation
\* lines of mapped symbols as it was, line terminators and the presence of a
\* final newline included; a file without such a line is left as it was.
C5_OtherBytesKept ==
  \A e \in Range(hist) :
    \A p \in Eligible(e.before) :
      OtherBytes(sig_info, RawLines(e.after[p])) = OtherBytes(sig_info, RawLines(e.before[p]))

\* C6: when the tool is invoked twice with --update alone, or twice with
\* --remove alone, the pass of the second invocation leaves every file as
\* the pass of the first left it.
C6_SecondPassChangesNothing ==
  args.update # args.remove =>
    \A i \in 1..Len(hist) : \A j \in 1..Len(hist) :
      (hist[i].op = hist[j].op /\ hist[j].run = hist[i].run + 1) =>
         hist[j].after = hist[i].after

\* C6, witness: --update alone has run twice, and the first pass rewrote an
\* annotation line of a file.
C6_Witness ==
  /\ args.update
  /\ ~args.remove
  /\ Len(hist) = 2
  /\ hist[2].run = 2
  /\ \E k \in 1..Len(splitlines(hist[1].before[FileA])) :
       /\ Len(splitlines(hist[1].after[FileA])) >= k
       /\ splitlines(hist[1].after[FileA])[k] # splitlines(hist[1].before[FileA])[k]

\* C9: whatever the output path, the remove pass leaves the file that
\* write_sig_library wrote in this invocation as written, and it exempts no
\* other file it lists: none of them keeps an annotation line of a mapped
\* symbol.
C9_OnlyOutputExempt ==
  \A e \in Range(hist) : (e.op = "remove" /\ e.run = run) =>
    /\ e.after[args.output] = written
    /\ \A p \in GlobFiles(e.before) \ {args.output} :
         \A l \in Range(splitlines(e.after[p])) : ~IsAnnotation(sig_info, l)

=============================================================================
